---- MODULE Spec2Model ----
(***************************************************************************)
(* Model of the TSS text-to-speech application:                            *)
(*   src/utils/audio.ts  decodeAudioData, manualPCMDecode, audioBufferToWav *)
(*   src/unnamed/part_000  App (handlers, playback, progress monitor) and   *)
(*                         generateSpeech                                   *)
(*                                                                         *)
(* Floating-point samples are modelled exactly as rationals v / Unit with  *)
(* Unit = 32768, plus the value NaN.  Every sample the model uses is a     *)
(* dyadic rational that a Float32 holds exactly, and every product the     *)
(* encoder forms is exact in a double, so the arithmetic below is the      *)
(* arithmetic of the code.                                                 *)
(***************************************************************************)
EXTENDS Integers, Sequences, FiniteSets, TLC

VARIABLES
    \* ---- audioBufferToWav (src/utils/audio.ts:49-103)
    buffer,      \* the AudioBuffer argument
    encPc,       \* position inside audioBufferToWav
    length,      \* const length
    view,        \* bytes of bufferArr, seen through the DataView
    pos,         \* let pos
    offset,      \* let offset
    i,           \* let i (channel index of the inner loop)
    writes,      \* history of the DataView writes performed so far
    blob,        \* the bytes of the returned Blob
    \* ---- decodeAudioData (src/utils/audio.ts:4-44)
    base64Data,  \* the base64Data argument, a sequence of characters
    decPc,       \* position inside decodeAudioData
    heap,        \* the two ArrayBuffers: bytes.buffer and bufferCopy
    decoded,     \* what the platform primitive resolved with
    result,      \* the AudioBuffer the promise resolved with
    error,       \* the error the promise rejected with
    decLog,      \* history of the decode strategies attempted
    \* ---- generateSpeech (src/unnamed/part_000:559-619)
    apiKey,      \* process.env.API_KEY: "key" or ""
    svcPc,       \* position inside generateSpeech
    requests,    \* requests this invocation has sent to the TTS API
    response,    \* what the TTS API answered this invocation
    \* ---- App (src/unnamed/part_000:56-273)
    isLoading, history, currentAudio, isPlaying, currentTime, speed,
    audioContextRef, sourceNodeRef, startTimeRef, pausedAtRef,
    genPc,       \* position inside handleGenerate
    outcome,     \* how the steps of the last handleGenerate ended
    replays,     \* history items of the pending handleHistoryPlay calls
    nextId,      \* the next Date.now() item id
    raf,         \* the pending animation frame and what its closure captured
    effectDirty, \* a dependency of the progress effect has changed
    ctxState,    \* audioContext.state
    ctxTime,     \* audioContext.currentTime, the audio clock
    sources      \* state of every AudioBufferSourceNode created so far

encVars == <<buffer, encPc, length, view, pos, offset, i, writes, blob>>
decVars == <<base64Data, decPc, heap, decoded, result, error, decLog>>
svcVars == <<apiKey, svcPc, requests, response>>
appVars == <<isLoading, history, currentAudio, isPlaying, currentTime, speed,
             audioContextRef, sourceNodeRef, startTimeRef, pausedAtRef,
             genPc, outcome, replays, nextId, raf, effectDirty, ctxState,
             ctxTime, sources>>
vars == <<buffer, encPc, length, view, pos, offset, i, writes, blob,
          base64Data, decPc, heap, decoded, result, error, decLog,
          apiKey, svcPc, requests, response,
          isLoading, history, currentAudio, isPlaying, currentTime, speed,
          audioContextRef, sourceNodeRef, startTimeRef, pausedAtRef,
          genPc, outcome, replays, nextId, raf, effectDirty, ctxState,
          ctxTime, sources>>

----------------------------------------------------------------------------
(* Bounds of the model *)

\* largest frame count (buffer.length) of an encoder input
MaxFrames == 46
\* largest channel count (buffer.numberOfChannels) of an encoder input
MaxChannels == 3
\* longest base64 string handed to decodeAudioData
MaxB64Len == 6
\* most AudioBufferSourceNodes the application creates
MaxSources == 2
\* last value of the audio clock
MaxClock == 2

----------------------------------------------------------------------------
(* Numbers: floats, typed-array conversions *)

\* 1.0 as a sample numerator: a sample is the rational v / Unit
Unit == 32768

F(n) == [nan |-> FALSE, v |-> n]
NaN == [nan |-> TRUE, v |-> 0]

\* truncation toward zero of the rational num / den, den > 0
Trunc(num, den) ==
    IF num >= 0 THEN num \div den ELSE -((-num) \div den)

\* Math.min / Math.max of a number literal k (in Unit) and a sample
MathMin(k, s) == IF s.nan THEN NaN ELSE IF s.v < k THEN s ELSE F(k)
MathMax(k, s) == IF s.nan THEN NaN ELSE IF s.v > k THEN s ELSE F(k)

\* ToInt16 / ToUint16 / ToUint8 of an integer
ToUint16(n) == n % 65536
ToInt16(n) == ((n + 32768) % 65536) - 32768
ByteOf(n, k) == (n \div (256 ^ k)) % 256

----------------------------------------------------------------------------
(* AudioBuffer values *)

\* an AudioBuffer whose sample of channel c, frame f is taken from the
\* pattern pat, repeated cyclically over the interleaved order
MkBuffer(nc, len, rate, pat) ==
    [numberOfChannels |-> nc, length |-> len, sampleRate |-> rate,
     channels |-> [c \in 0..(nc - 1) |->
                     [f \in 0..(len - 1) |-> pat[((f * nc + c) % Len(pat)) + 1]]]]

\* the value of a reference that holds no AudioBuffer
NoBuffer ==
    [numberOfChannels |-> 0, length |-> 0, sampleRate |-> 0,
     channels |-> [c \in {} |-> [f \in {} |-> NaN]]]

\* sample values of the encoder inputs: -2.0, -1.0, just below -0.5, -0.5,
\* 0.0, 0.5, 1.0, 1.5 and NaN
SampleValues ==
    {F(-65536), F(-32768), F(-16385), F(-16384), F(0), F(16384), F(32768),
     F(49152), NaN}

SamplePatterns ==
    {<<s>> : s \in SampleValues}
    \cup {<<F(32768), F(-32768), F(0)>>,
          <<F(16384), F(1), NaN, F(-16385), F(49152), F(-65536), F(-16384)>>}

SampleRates == {24000, 44100}

EncoderInputs ==
    {MkBuffer(nc, len, rate, pat) :
        nc \in 1..MaxChannels, len \in 0..MaxFrames,
        rate \in SampleRates, pat \in SamplePatterns}

----------------------------------------------------------------------------
(* DataView *)

ByteLength(v) == Cardinality(DOMAIN v)

\* whether a write of size bytes at byte offset at stays inside the view;
\* DataView.prototype.set* throws a RangeError otherwise
InView(v, at, size) == at >= 0 /\ at + size <= ByteLength(v)

\* the view after a little-endian store of the unsigned integer data
StoreLE(v, at, size, data) ==
    [k \in DOMAIN v |->
        IF at <= k /\ k < at + size THEN ByteOf(data, k - at) ELSE v[k]]

\* one entry of the write history: chan and frame are the indices of the
\* sample that was read for a sample write, and -1 for a header field
WriteRec(at, size, value, chan, frame) ==
    [at |-> at, size |-> size, value |-> value, chan |-> chan, frame |-> frame]

\* the closures setUint16 / setUint32 over view and pos; h is the record
\* [view, pos, writes, err] of what they read and update
SetUint(h, size, data) ==
    IF h.err \/ ~InView(h.view, h.pos, size)
    THEN [h EXCEPT !.err = TRUE]
    ELSE [view |-> StoreLE(h.view, h.pos, size, data),
          pos |-> h.pos + size,
          writes |-> Append(h.writes, WriteRec(h.pos, size, data, -1, -1)),
          err |-> FALSE]

\* mutation of setUint16: the field is stored 4 bytes wide
setUint16Wide(h, data) == SetUint(h, 4, data)

setUint16(h, data) == SetUint(h, 2, data)

setUint32(h, data) == SetUint(h, 4, data)

----------------------------------------------------------------------------
(* audioBufferToWav *)

\* size of the header the encoder reserves before the sample data
HeaderBytes == 44

\* mutation of WavLength: the channel count is left out
WavLengthMono(b) == b.length * 2 + HeaderBytes

\* const length = buffer.length * numOfChan * 2 + 44
WavLength(b) == b.length * b.numberOfChannels * 2 + HeaderBytes

\* the four-character codes, as the little-endian integers of the source
RIFF == 1179011410
WAVE == 1163280727
FMT == 544501094
DATA == 1635017060

\* mutation of ByteRate: the channel count is left out
ByteRateMono(b) == b.sampleRate * 2

\* buffer.sampleRate * 2 * numOfChan
ByteRate(b) == b.sampleRate * 2 * b.numberOfChannels

\* numOfChan * 2
BlockAlign(b) == b.numberOfChannels * 2

\* mutation of DataChunkLength: the size field itself is counted
DataChunkLengthWithField(len, p) == len - p

\* length - pos - 4, the argument of the last header write
DataChunkLength(len, p) == len - p - 4

\* the thirteen header writes, in source order
Header(b, len, h0) ==
    LET h1 == setUint32(h0, RIFF)
        h2 == setUint32(h1, len - 8)
        h3 == setUint32(h2, WAVE)
        h4 == setUint32(h3, FMT)
        h5 == setUint32(h4, 16)
        h6 == setUint16(h5, 1)
        h7 == setUint16(h6, b.numberOfChannels)
        h8 == setUint32(h7, b.sampleRate)
        h9 == setUint32(h8, ByteRate(b))
        h10 == setUint16(h9, BlockAlign(b))
        h11 == setUint16(h10, 16)
        h12 == setUint32(h11, DATA)
    IN  setUint32(h12, DataChunkLength(len, h12.pos))

\* mutation of Clamp: only the lower limit is applied
ClampLowOnly(s) == MathMax(-Unit, s)

\* Math.max(-1, Math.min(1, s))
Clamp(s) == MathMax(-Unit, MathMin(Unit, s))

\* mutation of ScaleToInt: symmetric scaling by 32767
ScaleSymmetric(s) == IF s.nan THEN 0 ELSE Trunc(s.v * 32767, Unit)

\* (0.5 + s < 0 ? s * 32768 : s * 32767) | 0
\* a comparison with NaN is false and NaN | 0 is 0; every other value here
\* is inside the int32 range, where | 0 is truncation toward zero
ScaleToInt(s) ==
    IF s.nan THEN 0
    ELSE IF (Unit \div 2) + s.v < 0
         THEN Trunc(s.v * 32768, Unit)
         ELSE Trunc(s.v * 32767, Unit)

InitEncoder ==
    /\ buffer \in EncoderInputs
    /\ encPc = "call"
    /\ length = 0
    /\ view = [k \in {} |-> 0]
    /\ pos = 0
    /\ offset = 0
    /\ i = 0
    /\ writes = <<>>
    /\ blob = <<>>

\* lines 50-58: the locals, the zero-filled ArrayBuffer and its DataView
EncAllocate ==
    /\ encPc = "call"
    /\ length' = WavLength(buffer)
    /\ view' = [k \in 0..(WavLength(buffer) - 1) |-> 0]
    /\ pos' = 0
    /\ offset' = 0
    /\ i' = 0
    /\ encPc' = "header"
    /\ UNCHANGED <<buffer, writes, blob>>

\* lines 60-75: write WAVE header
EncWriteHeader ==
    /\ encPc = "header"
    /\ LET h == Header(buffer, length,
                       [view |-> view, pos |-> pos, writes |-> writes,
                        err |-> FALSE])
       IN  /\ view' = h.view
           /\ pos' = h.pos
           /\ writes' = h.writes
           /\ encPc' = IF h.err THEN "RangeError" ELSE "data"
    /\ UNCHANGED <<buffer, length, offset, i, blob>>

\* lines 81-90: one pass of the inner loop body, and pos++ after the last
\* channel of the frame
EncWriteSample ==
    /\ encPc = "data"
    /\ pos < buffer.length
    /\ LET sample == ScaleToInt(Clamp(buffer.channels[i][pos]))
           at == HeaderBytes + offset
       IN  IF InView(view, at, 2)
           THEN /\ view' = StoreLE(view, at, 2, ToUint16(sample))
                /\ writes' = Append(writes, WriteRec(at, 2, sample, i, pos))
                /\ offset' = offset + 2
                /\ i' = IF i + 1 < buffer.numberOfChannels THEN i + 1 ELSE 0
                /\ pos' = IF i + 1 < buffer.numberOfChannels THEN pos ELSE pos + 1
                /\ encPc' = "data"
           ELSE /\ encPc' = "RangeError"
                /\ UNCHANGED <<view, writes, offset, i, pos>>
    /\ UNCHANGED <<buffer, length, blob>>

\* line 92: the loop has ended; the Blob holds the bytes of bufferArr
EncReturn ==
    /\ encPc = "data"
    /\ ~(pos < buffer.length)
    /\ blob' = [k \in 1..ByteLength(view) |-> view[k - 1]]
    /\ encPc' = "done"
    /\ UNCHANGED <<buffer, length, view, pos, offset, i, writes>>

----------------------------------------------------------------------------
(* atob: the forgiving-base64 decode of the HTML standard.  The inputs of  *)
(* the model hold no ASCII whitespace, so its removal is the identity.     *)

Base64Alphabet ==
    <<"A", "B", "C", "D", "E", "F", "G", "H", "I", "J", "K", "L", "M",
      "N", "O", "P", "Q", "R", "S", "T", "U", "V", "W", "X", "Y", "Z",
      "a", "b", "c", "d", "e", "f", "g", "h", "i", "j", "k", "l", "m",
      "n", "o", "p", "q", "r", "s", "t", "u", "v", "w", "x", "y", "z",
      "0", "1", "2", "3", "4", "5", "6", "7", "8", "9", "+", "/">>

Base64Index(ch) == CHOOSE k \in 0..63 : Base64Alphabet[k + 1] = ch

\* a length divisible by 4 loses one or two trailing "="
StripPadding(s) ==
    LET n == Len(s)
    IN  IF n = 0 \/ n % 4 # 0 THEN s
        ELSE IF s[n] = "=" /\ s[n - 1] = "=" THEN SubSeq(s, 1, n - 2)
        ELSE IF s[n] = "=" THEN SubSeq(s, 1, n - 1)
        ELSE s

\* atob throws InvalidCharacterError
AtobThrows(s) ==
    LET d == StripPadding(s)
    IN  \/ Len(d) % 4 = 1
        \/ \E k \in 1..Len(d) : \A a \in 1..64 : Base64Alphabet[a] # d[k]

\* byte j (from 0) of the decoded data: 6 bits per character, most
\* significant first, the bits left over after the last whole byte dropped
AtobByte(d, j) ==
    LET g == 4 * (j \div 3)
        sx(k) == Base64Index(d[g + k])
    IN  CASE j % 3 = 0 -> sx(1) * 4 + (sx(2) \div 16)
          [] j % 3 = 1 -> (sx(2) % 16) * 16 + (sx(3) \div 4)
          [] j % 3 = 2 -> (sx(3) % 4) * 64 + sx(4)

\* lines 8-13: the bytes of the Uint8Array filled from atob's binary string
AtobBytes(s) ==
    LET d == StripPadding(s)
        len == (Len(d) * 6) \div 8
    IN  [k \in 0..(len - 1) |-> AtobByte(d, k)]

\* characters of the decoder inputs: two of the alphabet, the padding
\* character and one that is not base64
Base64Chars == {"A", "w", "=", "!"}

\* every string over Base64Chars up to MaxB64Len, and the base64 form of
\* the int16 pair [16384, -16384]
DecoderInputs ==
    UNION {[1..n -> Base64Chars] : n \in 0..MaxB64Len}
    \cup {<<"A", "E", "A", "A", "w", "A", "=", "=">>}

----------------------------------------------------------------------------
(* ArrayBuffers *)

ArrayBufferOf(data) == [detached |-> FALSE, data |-> data]

EmptyArrayBuffer == ArrayBufferOf([k \in {} |-> 0])

\* a detached ArrayBuffer has byteLength 0
Detached == [detached |-> TRUE, data |-> [k \in {} |-> 0]]

\* ArrayBuffer.prototype.slice(0): a new buffer with the same bytes
Slice0(ab) == ArrayBufferOf(ab.data)

----------------------------------------------------------------------------
(* manualPCMDecode *)

\* int16Data[k]: the little-endian signed 16-bit integer at bytes 2k, 2k+1
Int16At(data, k) == ToInt16(data[2 * k] + 256 * data[2 * k + 1])

\* int16Data[i] / 32768.0, exact in a Float32
Int16ToFloat(x) == F((x * Unit) \div 32768)

\* ctx.createBuffer(numChannels, len, sampleRate) throws NotSupportedError
\* for a length of zero frames (Web Audio API, BaseAudioContext.createBuffer)
CreateBufferThrows(numChannels, len, sampleRate) == len <= 0

\* the outcome of manualPCMDecode(bytes, ctx): [error, buffer]
manualPCMDecode(ab) ==
    LET byteLen == ByteLength(ab.data)
        n == byteLen \div 2
        float32Data == [k \in 0..(n - 1) |-> Int16ToFloat(Int16At(ab.data, k))]
    IN  IF ab.detached
        THEN [error |-> "TypeError", buffer |-> NoBuffer]
        ELSE IF byteLen % 2 # 0
        THEN [error |-> "RangeError", buffer |-> NoBuffer]
        ELSE IF CreateBufferThrows(1, n, 24000)
        THEN [error |-> "NotSupportedError", buffer |-> NoBuffer]
        ELSE [error |-> "none",
              buffer |-> [numberOfChannels |-> 1, length |-> n,
                          sampleRate |-> 24000,
                          channels |-> [c \in 0..0 |-> float32Data]]]

----------------------------------------------------------------------------
(* decodeAudioData *)

\* AudioBuffers the platform decode primitive may resolve with
PlatformBuffers ==
    {MkBuffer(1, 1, 24000, <<F(0)>>), MkBuffer(2, 2, 44100, <<F(16384)>>)}

\* mutation of PlatformArg: bytes.buffer itself is handed over, not a copy
PlatformArgBytes == "bytes"

\* line 19: the ArrayBuffer handed to audioContext.decodeAudioData
PlatformArg == "copy"

InitDecoder ==
    /\ base64Data \in DecoderInputs
    /\ decPc = "call"
    /\ heap = [bytes |-> EmptyArrayBuffer, copy |-> EmptyArrayBuffer]
    /\ decoded = NoBuffer
    /\ result = NoBuffer
    /\ error = "none"
    /\ decLog = <<>>

\* lines 8-13: atob and the copy into the Uint8Array; atob's exception is
\* outside the try block and rejects the promise
DecAtob ==
    /\ decPc = "call"
    /\ IF AtobThrows(base64Data)
       THEN /\ decPc' = "rejected"
            /\ error' = "InvalidCharacterError"
            /\ UNCHANGED heap
       ELSE /\ decPc' = "try"
            /\ heap' = [heap EXCEPT !.bytes = ArrayBufferOf(AtobBytes(base64Data))]
            /\ UNCHANGED error
    /\ UNCHANGED <<base64Data, decoded, result, decLog>>

\* lines 18-19: copy the buffer and call the platform primitive, which may
\* detach the ArrayBuffer it is given
DecCallPlatform ==
    /\ decPc = "try"
    /\ \E detach \in BOOLEAN :
         LET copied == [heap EXCEPT !.copy = Slice0(heap.bytes)]
         IN  heap' = IF detach
                     THEN [copied EXCEPT ![PlatformArg] = Detached]
                     ELSE copied
    /\ decLog' = Append(decLog, "platform")
    /\ decPc' = "await"
    /\ UNCHANGED <<base64Data, decoded, result, error>>

\* the platform primitive resolves its promise with an AudioBuffer; it has
\* nothing to decode in an empty payload
DecPlatformResolve ==
    /\ decPc = "await"
    /\ ByteLength(AtobBytes(base64Data)) > 0
    /\ \E b \in PlatformBuffers : decoded' = b
    /\ decLog' = Append(decLog, "platform_ok")
    /\ decPc' = "return"
    /\ UNCHANGED <<base64Data, heap, result, error>>

\* the platform primitive rejects its promise
DecPlatformReject ==
    /\ decPc = "await"
    /\ decLog' = Append(decLog, "platform_err")
    /\ decPc' = "catch"
    /\ UNCHANGED <<base64Data, heap, decoded, result, error>>

\* mutation of DecReturn: the fallback runs after a successful decode too
DecReturnThenFallback ==
    /\ decPc = "return"
    /\ result' = decoded
    /\ decPc' = "catch"
    /\ UNCHANGED <<base64Data, heap, decoded, error, decLog>>

\* line 19: return await ...
DecReturn ==
    /\ decPc = "return"
    /\ result' = decoded
    /\ decPc' = "resolved"
    /\ UNCHANGED <<base64Data, heap, decoded, error, decLog>>

\* lines 20-26: the catch block returns manualPCMDecode(bytes, audioContext)
DecFallback ==
    /\ decPc = "catch"
    /\ LET r == manualPCMDecode(heap.bytes)
       IN  IF r.error = "none"
           THEN /\ result' = r.buffer
                /\ decLog' = decLog \o <<"manual", "manual_ok">>
                /\ decPc' = "resolved"
                /\ UNCHANGED error
           ELSE /\ error' = r.error
                /\ decLog' = decLog \o <<"manual", "manual_err">>
                /\ decPc' = "rejected"
                /\ UNCHANGED result
    /\ UNCHANGED <<base64Data, heap, decoded>>

----------------------------------------------------------------------------
(* Values of the application state *)

\* currentAudio === null
NoAudio == [id |-> 0, duration |-> 0]

\* no animation frame is requested
NoFrame ==
    [scheduled |-> FALSE, isPlaying |-> FALSE, audio |-> NoAudio, speed |-> 1]

\* no step of handleGenerate has ended yet
NoOutcome == [speech |-> "-", decode |-> "-", encode |-> "-"]

----------------------------------------------------------------------------
(* generateSpeech: one call of the TTS API.  The answer of the API is what  *)
(* the model draws: a rejection, a response without inline data, a response *)
(* whose data is the empty string, or a response that carries audio.        *)

ApiResponses == {"reject", "undefined", "empty", "audio"}

\* !base64Audio, narrowed to a missing value: the empty string passes
IsFalsyUndefinedOnly(data) == data = "undefined"

\* !base64Audio
IsFalsy(data) == data \in {"undefined", "empty"}

\* the synchronous part of generateSpeech, up to its await
SvcStart ==
    /\ svcPc = "call"
    /\ IF apiKey = ""
       THEN /\ svcPc' = "thrown"
            /\ UNCHANGED requests
       ELSE /\ svcPc' = "await"
            /\ requests' = requests + 1
    /\ UNCHANGED <<apiKey, response>>
    /\ UNCHANGED <<encVars, decVars, appVars>>

\* generateContent settles and generateSpeech returns or throws
SvcSettle ==
    /\ svcPc = "await"
    /\ \E r \in ApiResponses :
        /\ response' = r
        /\ svcPc' = IF r = "reject" \/ IsFalsy(r) THEN "thrown" ELSE "returned"
    /\ UNCHANGED <<apiKey, requests>>
    /\ UNCHANGED <<encVars, decVars, appVars>>

----------------------------------------------------------------------------
(* App: playback.  A source is "playing" from its start() to its stop().    *)

\* values of the speed slider
Speeds == {1, 2}

\* durations of the decoded buffers, in ticks of the audio clock
Durations == {1, 2}

\* source creations that the calls in flight may still make
PendingPlays == Len(replays) + (IF genPc = "idle" THEN 0 ELSE 1)

CanStartPlay == Len(sources) + PendingPlays < MaxSources

\* stop() and disconnect() that leave the node running
StopNothing(srcs, ref) == srcs

\* sourceNodeRef.current.stop(); sourceNodeRef.current.disconnect()
StopSource(srcs, ref) ==
    [n \in DOMAIN srcs |-> IF n = ref THEN "stopped" ELSE srcs[n]]

stopAudio ==
    /\ sources' = StopSource(sources, sourceNodeRef)
    /\ sourceNodeRef' = 0
    /\ isPlaying' = FALSE
    /\ currentTime' = 0
    /\ pausedAtRef' = 0
    /\ effectDirty' = (effectDirty \/ isPlaying)
    /\ UNCHANGED <<currentAudio, startTimeRef, ctxState>>

playBuffer(duration, id) ==
    IF audioContextRef = "null"
    THEN stopAudio
    ELSE /\ sources' = Append(StopSource(sources, sourceNodeRef), "playing")
         /\ sourceNodeRef' = Len(sources) + 1
         /\ ctxState' = "running"
         /\ pausedAtRef' = 0
         /\ startTimeRef' = ctxTime
         /\ currentAudio' = [id |-> id, duration |-> duration]
         /\ isPlaying' = TRUE
         /\ currentTime' = 0
         /\ effectDirty' = TRUE

\* the mount effect creates the AudioContext
Mount ==
    /\ audioContextRef = "null"
    /\ audioContextRef' = "ctx"
    /\ \E st \in {"suspended", "running"} : ctxState' = st
    /\ UNCHANGED <<isLoading, history, currentAudio, isPlaying, currentTime,
                   speed, sourceNodeRef, startTimeRef, pausedAtRef, genPc,
                   outcome, replays, nextId, raf, effectDirty, ctxTime,
                   sources>>
    /\ UNCHANGED <<encVars, decVars, svcVars>>

\* the audio clock of a running context advances
Tick ==
    /\ audioContextRef = "ctx"
    /\ ctxState = "running"
    /\ ctxTime < MaxClock
    /\ ctxTime' = ctxTime + 1
    /\ UNCHANGED <<isLoading, history, currentAudio, isPlaying, currentTime,
                   speed, audioContextRef, sourceNodeRef, startTimeRef,
                   pausedAtRef, genPc, outcome, replays, nextId, raf,
                   effectDirty, ctxState, sources>>
    /\ UNCHANGED <<encVars, decVars, svcVars>>

\* the speed slider
SetSpeed ==
    /\ \E s \in Speeds \ {speed} : speed' = s
    /\ effectDirty' = TRUE
    /\ UNCHANGED <<isLoading, history, currentAudio, isPlaying, currentTime,
                   audioContextRef, sourceNodeRef, startTimeRef, pausedAtRef,
                   genPc, outcome, replays, nextId, raf, ctxState, ctxTime,
                   sources>>
    /\ UNCHANGED <<encVars, decVars, svcVars>>

\* the play / stop button of the player
TogglePlay ==
    /\ currentAudio # NoAudio
    /\ IF isPlaying
       THEN stopAudio
       ELSE /\ CanStartPlay
            /\ playBuffer(currentAudio.duration, currentAudio.id)
    /\ UNCHANGED <<isLoading, history, speed, audioContextRef, genPc, outcome,
                   replays, nextId, raf, ctxTime>>
    /\ UNCHANGED <<encVars, decVars, svcVars>>

----------------------------------------------------------------------------
(* App: handleGenerate.  The Generate button is disabled while isLoading    *)
(* or while the text is blank, so every call has non-blank text.            *)

\* a finally block that leaves the flag as it is
FinallyKeeps(flag) == flag

\* the finally block: setIsLoading(false)
Finally(flag) == FALSE

\* the call up to its first await: the loading flag, then generateSpeech
GenCall ==
    /\ genPc = "idle"
    /\ ~isLoading
    /\ CanStartPlay
    /\ isLoading' = TRUE
    /\ genPc' = "speech"
    /\ outcome' = NoOutcome
    /\ svcPc' = "call"
    /\ requests' = 0
    /\ response' = "none"
    /\ UNCHANGED <<history, currentAudio, isPlaying, currentTime, speed,
                   audioContextRef, sourceNodeRef, startTimeRef, pausedAtRef,
                   replays, nextId, raf, effectDirty, ctxState, ctxTime,
                   sources>>
    /\ UNCHANGED <<apiKey>>
    /\ UNCHANGED <<encVars, decVars>>

\* generateSpeech has settled: catch and finally, or the return of line 162
\* and finally, or the call of decodeAudioData
GenAfterSpeech ==
    /\ genPc = "speech"
    /\ svcPc \in {"returned", "thrown"}
    /\ outcome' = [outcome EXCEPT
                     !.speech = IF svcPc = "returned" THEN "ok" ELSE "err"]
    /\ IF svcPc = "returned" /\ audioContextRef # "null"
       THEN /\ genPc' = "decode"
            /\ UNCHANGED isLoading
       ELSE /\ genPc' = "idle"
            /\ isLoading' = Finally(isLoading)
    /\ UNCHANGED <<history, currentAudio, isPlaying, currentTime, speed,
                   audioContextRef, sourceNodeRef, startTimeRef, pausedAtRef,
                   replays, nextId, raf, effectDirty, ctxState, ctxTime,
                   sources>>
    /\ UNCHANGED <<encVars, decVars, svcVars>>

\* decodeAudioData resolves; audioBufferToWav returns or throws; on its
\* return the item is prepended and played
GenDecodeResolved ==
    /\ genPc = "decode"
    /\ \E duration \in Durations, encoded \in BOOLEAN :
        /\ outcome' = [outcome EXCEPT
                         !.decode = "ok",
                         !.encode = IF encoded THEN "ok" ELSE "err"]
        /\ IF encoded
           THEN /\ history' = <<[id |-> nextId, duration |-> duration]>>
                              \o history
                /\ nextId' = nextId + 1
                /\ playBuffer(duration, nextId)
           ELSE UNCHANGED <<history, nextId, sources, sourceNodeRef,
                            ctxState, pausedAtRef, startTimeRef, currentAudio,
                            isPlaying, currentTime, effectDirty>>
    /\ genPc' = "idle"
    /\ isLoading' = Finally(isLoading)
    /\ UNCHANGED <<speed, audioContextRef, replays, raf, ctxTime>>
    /\ UNCHANGED <<encVars, decVars, svcVars>>

\* decodeAudioData rejects: catch, then finally
GenDecodeRejected ==
    /\ genPc = "decode"
    /\ outcome' = [outcome EXCEPT !.decode = "err"]
    /\ genPc' = "idle"
    /\ isLoading' = Finally(isLoading)
    /\ UNCHANGED <<history, currentAudio, isPlaying, currentTime, speed,
                   audioContextRef, sourceNodeRef, startTimeRef, pausedAtRef,
                   replays, nextId, raf, effectDirty, ctxState, ctxTime,
                   sources>>
    /\ UNCHANGED <<encVars, decVars, svcVars>>

----------------------------------------------------------------------------
(* App: the history list *)

\* the play button of a history item, up to its first await
HistCall ==
    /\ \E k \in DOMAIN history :
        IF currentAudio.id = history[k].id /\ isPlaying
        THEN /\ stopAudio
             /\ UNCHANGED replays
        ELSE /\ audioContextRef # "null"
             /\ CanStartPlay
             /\ replays' = Append(replays, history[k])
             /\ UNCHANGED <<sources, sourceNodeRef, isPlaying, currentTime,
                            pausedAtRef, effectDirty, currentAudio,
                            startTimeRef, ctxState>>
    /\ UNCHANGED <<isLoading, history, speed, audioContextRef, genPc, outcome,
                   nextId, raf, ctxTime>>
    /\ UNCHANGED <<encVars, decVars, svcVars>>

\* replays without its k-th call
Without(seq, k) == SubSeq(seq, 1, k - 1) \o SubSeq(seq, k + 1, Len(seq))

\* arrayBuffer() and decodeAudioData resolve for a pending call: playBuffer
HistResolved ==
    /\ \E k \in DOMAIN replays :
        /\ playBuffer(replays[k].duration, replays[k].id)
        /\ replays' = Without(replays, k)
    /\ UNCHANGED <<isLoading, history, speed, audioContextRef, genPc, outcome,
                   nextId, raf, ctxTime>>
    /\ UNCHANGED <<encVars, decVars, svcVars>>

\* one of the two awaits rejects: the call ends there
HistRejected ==
    /\ \E k \in DOMAIN replays : replays' = Without(replays, k)
    /\ UNCHANGED <<isLoading, history, currentAudio, isPlaying, currentTime,
                   speed, audioContextRef, sourceNodeRef, startTimeRef,
                   pausedAtRef, genPc, outcome, nextId, raf, effectDirty,
                   ctxState, ctxTime, sources>>
    /\ UNCHANGED <<encVars, decVars, svcVars>>

\* the delete button of a history item
HistDelete ==
    /\ \E k \in DOMAIN history : history' = Without(history, k)
    /\ UNCHANGED <<isLoading, currentAudio, isPlaying, currentTime, speed,
                   audioContextRef, sourceNodeRef, startTimeRef, pausedAtRef,
                   genPc, outcome, replays, nextId, raf, effectDirty,
                   ctxState, ctxTime, sources>>
    /\ UNCHANGED <<encVars, decVars, svcVars>>

----------------------------------------------------------------------------
(* App: the progress monitor *)

\* the truthiness of a number
Truthy(x) == x # 0

\* the effect runs again after a render that changed one of its dependencies:
\* the old frame is cancelled and, while playing, a new one is requested
RunEffect ==
    /\ effectDirty
    /\ effectDirty' = FALSE
    /\ raf' = IF isPlaying
              THEN [scheduled |-> TRUE, isPlaying |-> isPlaying,
                    audio |-> currentAudio, speed |-> speed]
              ELSE NoFrame
    /\ UNCHANGED <<isLoading, history, currentAudio, isPlaying, currentTime,
                   speed, audioContextRef, sourceNodeRef, startTimeRef,
                   pausedAtRef, genPc, outcome, replays, nextId, ctxState,
                   ctxTime, sources>>
    /\ UNCHANGED <<encVars, decVars, svcVars>>

\* position of the playback as updateProgress computes it
AdjustedTime(s) == pausedAtRef + (ctxTime - startTimeRef) * s

\* the animation frame fires: updateProgress with the values it captured
UpdateProgress ==
    /\ raf.scheduled
    /\ IF raf.isPlaying /\ audioContextRef # "null" /\ Truthy(startTimeRef)
       THEN IF raf.audio # NoAudio
               /\ AdjustedTime(raf.speed) >= raf.audio.duration
            THEN /\ stopAudio
                 /\ raf' = NoFrame
            ELSE /\ currentTime' = AdjustedTime(raf.speed)
                 /\ UNCHANGED <<raf, sources, sourceNodeRef, isPlaying,
                                pausedAtRef, effectDirty, currentAudio,
                                startTimeRef, ctxState>>
       ELSE /\ raf' = NoFrame
            /\ UNCHANGED <<sources, sourceNodeRef, isPlaying, currentTime,
                           pausedAtRef, effectDirty, currentAudio,
                           startTimeRef, ctxState>>
    /\ UNCHANGED <<isLoading, history, speed, audioContextRef, genPc, outcome,
                   replays, nextId, ctxTime>>
    /\ UNCHANGED <<encVars, decVars, svcVars>>

----------------------------------------------------------------------------
(* Specifications *)

IdleEncoder ==
    /\ buffer = NoBuffer
    /\ encPc = "idle"
    /\ length = 0
    /\ view = [k \in {} |-> 0]
    /\ pos = 0
    /\ offset = 0
    /\ i = 0
    /\ writes = <<>>
    /\ blob = <<>>

IdleDecoder ==
    /\ base64Data = <<>>
    /\ decPc = "idle"
    /\ heap = [bytes |-> EmptyArrayBuffer, copy |-> EmptyArrayBuffer]
    /\ decoded = NoBuffer
    /\ result = NoBuffer
    /\ error = "none"
    /\ decLog = <<>>

\* the application before it is mounted: nothing has run
IdleApp ==
    /\ apiKey = ""
    /\ svcPc = "idle"
    /\ requests = 0
    /\ response = "none"
    /\ isLoading = FALSE
    /\ history = <<>>
    /\ currentAudio = NoAudio
    /\ isPlaying = FALSE
    /\ currentTime = 0
    /\ speed = 1
    /\ audioContextRef = "null"
    /\ sourceNodeRef = 0
    /\ startTimeRef = 0
    /\ pausedAtRef = 0
    /\ genPc = "idle"
    /\ outcome = NoOutcome
    /\ replays = <<>>
    /\ nextId = 1
    /\ raf = NoFrame
    /\ effectDirty = FALSE
    /\ ctxState = "suspended"
    /\ ctxTime = 0
    /\ sources = <<>>

\* one call of audioBufferToWav on every encoder input
EncInit == InitEncoder /\ IdleDecoder /\ IdleApp

EncNext ==
    \/ EncAllocate /\ UNCHANGED <<decVars, svcVars, appVars>>
    \/ EncWriteHeader /\ UNCHANGED <<decVars, svcVars, appVars>>
    \/ EncWriteSample /\ UNCHANGED <<decVars, svcVars, appVars>>
    \/ EncReturn /\ UNCHANGED <<decVars, svcVars, appVars>>

EncSpec == EncInit /\ [][EncNext]_vars

\* one call of decodeAudioData on every decoder input
DecInit == InitDecoder /\ IdleEncoder /\ IdleApp

DecNext ==
    \/ DecAtob /\ UNCHANGED <<encVars, svcVars, appVars>>
    \/ DecCallPlatform /\ UNCHANGED <<encVars, svcVars, appVars>>
    \/ DecPlatformResolve /\ UNCHANGED <<encVars, svcVars, appVars>>
    \/ DecPlatformReject /\ UNCHANGED <<encVars, svcVars, appVars>>
    \/ DecReturn /\ UNCHANGED <<encVars, svcVars, appVars>>
    \/ DecFallback /\ UNCHANGED <<encVars, svcVars, appVars>>

DecSpec == DecInit /\ [][DecNext]_vars

----------------------------------------------------------------------------
(* Replay of a history item: the WAV Blob is decoded by the platform        *)

\* how a reader of the WAV file loads its little-endian fields from a byte
\* array indexed from 0
GetUint16(v, at) == v[at] + 256 * v[at + 1]
GetInt16(v, at) ==
    IF GetUint16(v, at) >= 32768 THEN GetUint16(v, at) - 65536
    ELSE GetUint16(v, at)
GetUint32(v, at) ==
    v[at] + 256 * v[at + 1] + 65536 * v[at + 2] + 16777216 * v[at + 3]

\* the AudioBuffer the platform primitive resolves with for the bytes of a
\* canonical 16-bit PCM WAV file, in an AudioContext running at the file's
\* sample rate: NumChannels, SampleRate and BlockAlign from the header,
\* Subchunk2Size / BlockAlign frames, each sample its int16 over 32768
WavDecode(bytes) ==
    LET nc == GetUint16(bytes, 22)
        frames == GetUint32(bytes, 40) \div GetUint16(bytes, 32)
    IN  [numberOfChannels |-> nc, length |-> frames,
         sampleRate |-> GetUint32(bytes, 24),
         channels |-> [c \in 0..(nc - 1) |->
            [f \in 0..(frames - 1) |->
                Int16ToFloat(GetInt16(bytes, HeaderBytes + 2 * (f * nc + c)))]]]

\* handleHistoryPlay, lines 254-255: item.audioBlob.arrayBuffer() and
\* audioContextRef.current.decodeAudioData(arrayBuffer), for the Blob that
\* audioBufferToWav returned
ReplayDecode ==
    /\ encPc = "done"
    /\ decPc = "idle"
    /\ decoded' = WavDecode([k \in 0..(Len(blob) - 1) |-> blob[k + 1]])
    /\ decPc' = "replayed"
    /\ UNCHANGED <<base64Data, heap, result, error, decLog>>
    /\ UNCHANGED <<encVars, svcVars, appVars>>

\* a sample that is exactly a 16-bit value k / 32768, -32768 <= k <= 32767
IsInt16Sample(s) == ~s.nan /\ s.v >= -32768 /\ s.v <= 32767

\* the encoder inputs with at least one frame whose samples are all such
RoundTripInputs ==
    {b \in EncoderInputs :
        /\ b.length >= 1
        /\ \A c \in 0..(b.numberOfChannels - 1) :
               \A f \in 0..(b.length - 1) : IsInt16Sample(b.channels[c][f])}

\* audioBufferToWav on such an input, then the replay of the Blob
RtInit == buffer \in RoundTripInputs /\ EncInit

RtNext == EncNext \/ ReplayDecode

RtSpec == RtInit /\ [][RtNext]_vars

----------------------------------------------------------------------------
(* The application: the handlers of App and generateSpeech, interleaved.    *)
(* decodeAudioData and audioBufferToWav appear by their outcome only.       *)

AppInit ==
    /\ IdleEncoder
    /\ IdleDecoder
    /\ apiKey \in {"key", ""}
    /\ svcPc = "idle"
    /\ requests = 0
    /\ response = "none"
    /\ isLoading = FALSE
    /\ history = <<>>
    /\ currentAudio = NoAudio
    /\ isPlaying = FALSE
    /\ currentTime = 0
    /\ speed = 1
    /\ audioContextRef = "null"
    /\ sourceNodeRef = 0
    /\ startTimeRef = 0
    /\ pausedAtRef = 0
    /\ genPc = "idle"
    /\ outcome = NoOutcome
    /\ replays = <<>>
    /\ nextId = 1
    /\ raf = NoFrame
    /\ effectDirty = FALSE
    /\ ctxState = "suspended"
    /\ ctxTime = 0
    /\ sources = <<>>

AppNext ==
    \/ Mount
    \/ Tick
    \/ SetSpeed
    \/ TogglePlay
    \/ GenCall
    \/ SvcStart
    \/ SvcSettle
    \/ GenAfterSpeech
    \/ GenDecodeResolved
    \/ GenDecodeRejected
    \/ HistCall
    \/ HistResolved
    \/ HistRejected
    \/ HistDelete
    \/ RunEffect
    \/ UpdateProgress

AppSpec == AppInit /\ [][AppNext]_vars

\* the awaited calls settle, continuations and effects run, frames fire and
\* the clock of a running context advances; what the user does is not forced
AppFairness ==
    /\ WF_vars(SvcStart)
    /\ WF_vars(SvcSettle)
    /\ WF_vars(GenAfterSpeech)
    /\ WF_vars(GenDecodeResolved \/ GenDecodeRejected)
    /\ WF_vars(HistResolved \/ HistRejected)
    /\ WF_vars(RunEffect)
    /\ WF_vars(UpdateProgress)
    /\ WF_vars(Tick)

AppFairSpec == AppSpec /\ AppFairness

----------------------------------------------------------------------------
(* Properties of audioBufferToWav, checked under EncSpec *)

\* the bytes of the returned Blob, indexed from 0
Out == [k \in 0..(Len(blob) - 1) |-> blob[k + 1]]

\* the writes of sample data, and those of header fields
SampleWrites == {k \in 1..Len(writes) : writes[k].chan >= 0}
HeaderWrites == {k \in 1..Len(writes) : writes[k].chan < 0}

\* the sample that write k read from the AudioBuffer
SampleRead(k) == buffer.channels[writes[k].chan][writes[k].frame]

\* r is the rational num / den truncated toward zero
IsTruncation(r, num, den) ==
    IF num >= 0
    THEN r >= 0 /\ r * den <= num /\ num < (r + 1) * den
    ELSE r <= 0 /\ r * den >= num /\ num > (r - 1) * den

\* r is the reference quantization of the sample v / Unit
IsReferenceQuantization(r, v) ==
    LET c == IF v < -Unit THEN -Unit ELSE IF v > Unit THEN Unit ELSE v
    IN  IF 2 * c + Unit < 0
        THEN IsTruncation(r, c * 32768, Unit)
        ELSE IsTruncation(r, c * 32767, Unit)

\* C1: in the output, the 16-bit value at byte 44 + 2*(f*channelCount + c)
\* is the quantized sample of channel c, frame f, for every frame and channel
C1_InterleavedFromFrameZero ==
    encPc = "done" =>
        \A f \in 0..(buffer.length - 1) :
            \A c \in 0..(buffer.numberOfChannels - 1) :
                GetInt16(Out, 44 + 2 * (f * buffer.numberOfChannels + c))
                    = ScaleToInt(Clamp(buffer.channels[c][f]))

\* C2: the output is exactly frameCount * channelCount * 2 + 44 bytes long
\* and every write of the encoder, header or sample, lies inside it
C2_LengthAndWritesInRange ==
    LET total == buffer.length * buffer.numberOfChannels * 2 + 44
    IN  /\ encPc # "RangeError"
        /\ encPc \in {"header", "data", "done"} => ByteLength(view) = total
        /\ \A k \in 1..Len(writes) :
               writes[k].at >= 0 /\ writes[k].at + writes[k].size <= total
        /\ encPc = "done" => Len(blob) = total

C2_Witness ==
    /\ encPc = "done"
    /\ buffer.numberOfChannels = 2
    /\ Cardinality(SampleWrites) = 4
    /\ \E k \in SampleWrites : writes[k].at = 50 /\ writes[k].at + 2 <= Len(blob)

\* C3: every sample the encoder stores is the reference quantization of the
\* sample it read: clamp to [-1, 1], scale by 32768 when c + 0.5 < 0 and by
\* 32767 otherwise, truncate toward zero; 1.0 -> 32767, -1.0 -> -32768, 0 -> 0
C3_QuantizationIsReference ==
    \A k \in SampleWrites :
        LET s == SampleRead(k)
        IN  ~s.nan =>
              /\ IsReferenceQuantization(writes[k].value, s.v)
              /\ GetInt16(view, writes[k].at) = writes[k].value
              /\ s.v = Unit => writes[k].value = 32767
              /\ s.v = -Unit => writes[k].value = -32768
              /\ s.v = 0 => writes[k].value = 0

C3_Witness ==
    /\ encPc = "done"
    /\ \E k \in SampleWrites :
           SampleRead(k) = F(-16384) /\ GetInt16(Out, writes[k].at) = -16383
    /\ \E k \in SampleWrites :
           SampleRead(k) = F(16384) /\ GetInt16(Out, writes[k].at) = 16383

\* C4: the integer the encoder passes to the 16-bit store always lies in
\* [-32768, 32767], so the store never wraps; samples >= 1.0 give 32767 and
\* samples <= -1.0 give -32768
C4_NoOutOfRangeValue ==
    \A k \in SampleWrites :
        LET s == SampleRead(k)
        IN  /\ writes[k].value >= -32768
            /\ writes[k].value <= 32767
            /\ GetInt16(view, writes[k].at) = writes[k].value
            /\ (~s.nan /\ s.v >= Unit) => GetInt16(view, writes[k].at) = 32767
            /\ (~s.nan /\ s.v <= -Unit) => GetInt16(view, writes[k].at) = -32768

C4_Witness ==
    /\ encPc = "done"
    /\ \E k \in SampleWrites :
           SampleRead(k) = F(49152) /\ GetInt16(Out, writes[k].at) = 32767
    /\ \E k \in SampleWrites :
           SampleRead(k) = F(-65536) /\ GetInt16(Out, writes[k].at) = -32768

\* the byte offsets of the header fields
HeaderOffsets == <<0, 4, 8, 12, 16, 20, 22, 24, 28, 32, 34, 36, 40>>

\* bytes at .. at+3 of v are the four ASCII codes
HasAscii(v, at, codes) == \A k \in 1..4 : v[at + k - 1] = codes[k]

\* the four chunk identifiers are in place and the header writes happened in
\* order at HeaderOffsets, each starting where the one before ended, the last
\* one ending at byte 44
HeaderLayout(v) ==
    /\ HasAscii(v, 0, <<82, 73, 70, 70>>)
    /\ HasAscii(v, 8, <<87, 65, 86, 69>>)
    /\ HasAscii(v, 12, <<102, 109, 116, 32>>)
    /\ HasAscii(v, 36, <<100, 97, 116, 97>>)
    /\ HeaderWrites = 1..Len(HeaderOffsets)
    /\ \A k \in HeaderWrites : writes[k].at = HeaderOffsets[k]
    /\ \A k \in HeaderWrites :
           writes[k].at + writes[k].size =
               IF k < Len(HeaderOffsets) THEN HeaderOffsets[k + 1] ELSE 44

\* C5 as stated: "RIFF", "WAVE", "fmt " and "data" at bytes 0, 8, 12 and 36,
\* and twelve header fields written in order at the offsets 0 .. 40
C5_TwelveHeaderFields ==
    encPc = "done" => HeaderLayout(Out) /\ Cardinality(HeaderWrites) = 12

\* C5 amended: the same, with thirteen header fields, which occupy exactly
\* bytes 0-43 during and after the writing of the samples
C5_ThirteenHeaderFields ==
    /\ encPc = "data" => HeaderLayout(view)
    /\ encPc = "done" => HeaderLayout(Out)
    /\ encPc \in {"data", "done"} => Cardinality(HeaderWrites) = 13

C5_Witness ==
    /\ encPc = "done"
    /\ Cardinality(SampleWrites) > 0
    /\ HasAscii(Out, 0, <<82, 73, 70, 70>>)
    /\ writes[13].at = 40

\* C6: ChunkSize = total length - 8, Subchunk1Size = 16 and Subchunk2Size =
\* total length - 44 = frameCount * channelCount * 2, little-endian 32-bit
C6_SizeFields ==
    encPc = "done" =>
        /\ GetUint32(Out, 4) = Len(blob) - 8
        /\ GetUint32(Out, 16) = 16
        /\ GetUint32(Out, 40) = Len(blob) - 44
        /\ GetUint32(Out, 40) = buffer.length * buffer.numberOfChannels * 2

C6_Witness ==
    /\ encPc = "done"
    /\ Len(blob) - 44 > 255
    /\ Out[41] = 1

\* C7: AudioFormat = 1, NumChannels = channelCount, SampleRate = sampleRate,
\* ByteRate = sampleRate * channelCount * 2, BlockAlign = channelCount * 2,
\* BitsPerSample = 16; so ByteRate = SampleRate * BlockAlign and
\* BlockAlign = NumChannels * BitsPerSample / 8
C7_FormatFields ==
    encPc = "done" =>
        /\ GetUint16(Out, 20) = 1
        /\ GetUint16(Out, 22) = buffer.numberOfChannels
        /\ GetUint32(Out, 24) = buffer.sampleRate
        /\ GetUint32(Out, 28) = buffer.sampleRate * buffer.numberOfChannels * 2
        /\ GetUint16(Out, 32) = buffer.numberOfChannels * 2
        /\ GetUint16(Out, 34) = 16
        /\ GetUint32(Out, 28) = GetUint32(Out, 24) * GetUint16(Out, 32)
        /\ GetUint16(Out, 32) * 8 = GetUint16(Out, 22) * GetUint16(Out, 34)

C7_Witness ==
    /\ encPc = "done"
    /\ buffer.numberOfChannels = 2
    /\ buffer.sampleRate = 44100
    /\ GetUint32(Out, 28) = 176400

----------------------------------------------------------------------------
(* Properties of the replay of an encoded buffer, checked under RtSpec *)

\* C12: decoding the WAV container that audioBufferToWav made of a buffer of
\* exact 16-bit samples gives a buffer with the same frameCount, channelCount
\* and sampleRate whose every sample is within one quantization step
\* (1 / 32768) of the original sample of the same frame and channel
C12_RoundTripWithinOneStep ==
    decPc = "replayed" =>
        /\ decoded.length = buffer.length
        /\ decoded.numberOfChannels = buffer.numberOfChannels
        /\ decoded.sampleRate = buffer.sampleRate
        /\ \A c \in 0..(buffer.numberOfChannels - 1) :
               \A f \in 0..(buffer.length - 1) :
                   /\ decoded.channels[c][f].v - buffer.channels[c][f].v <= 1
                   /\ buffer.channels[c][f].v - decoded.channels[c][f].v <= 1

----------------------------------------------------------------------------
(* Properties of decodeAudioData, checked under DecSpec *)

\* the strategy history holds the event e
Logged(e) == \E k \in 1..Len(decLog) : decLog[k] = e

\* how many times the event e is in the strategy history
TimesLogged(e) == Cardinality({k \in 1..Len(decLog) : decLog[k] = e})

\* the call of decodeAudioData has settled
Settled == decPc \in {"resolved", "rejected"}

\* the payload: the bytes that atob decoded from base64Data
Payload == AtobBytes(base64Data)

\* C8: the platform decode is the first strategy attempted; when it succeeds
\* its result is returned unchanged and the manual fallback never runs; the
\* fallback runs exactly when, and only after, the platform decode raised an
\* error; no third strategy is tried
C8_PlatformFirstThenFallback ==
    /\ Len(decLog) >= 1 => decLog[1] = "platform"
    /\ \A k \in 1..Len(decLog) :
           decLog[k] = "manual" => k = 3 /\ decLog[2] = "platform_err"
    /\ Logged("platform_ok") => ~Logged("manual")
    /\ (decPc = "resolved" /\ Logged("platform_ok")) => result = decoded
    /\ (Settled /\ Logged("platform_err")) => Logged("manual")
    /\ TimesLogged("platform") <= 1
    /\ TimesLogged("manual") <= 1
    /\ Len(decLog) <= 4

C8_Witness ==
    /\ decPc = "resolved"
    /\ decLog = <<"platform", "platform_err", "manual", "manual_ok">>
    /\ result.length = 2

\* C9: when the manual fallback has run on a payload of 2n bytes, the call
\* yields a buffer with 1 channel, 24000 Hz and n frames whose sample k is
\* the little-endian signed 16-bit integer of bytes 2k, 2k+1 over 32768
C9_ManualDecodeOfEvenPayload ==
    (Logged("manual") /\ ByteLength(Payload) % 2 = 0) =>
        LET n == ByteLength(Payload) \div 2
        IN  /\ decPc = "resolved"
            /\ result.numberOfChannels = 1
            /\ result.sampleRate = 24000
            /\ result.length = n
            /\ \A k \in 0..(n - 1) :
                   LET u == Payload[2 * k] + 256 * Payload[2 * k + 1]
                       int16 == IF u >= 32768 THEN u - 65536 ELSE u
                   IN  /\ ~result.channels[0][k].nan
                       /\ result.channels[0][k].v * 32768 = int16 * Unit

\* C10: the call fails only if the platform decode and the manual fallback
\* both failed, never when the platform decode succeeded and never before a
\* strategy was attempted; after a failed platform decode of a payload of
\* odd byte length the fallback fails and the call is rejected
C10_FailsOnlyIfBothStrategiesFail ==
    /\ decPc = "rejected" => Logged("platform_err") /\ Logged("manual_err")
    /\ Logged("platform_ok") => decPc # "rejected"
    /\ (Settled /\ Logged("platform_err") /\ ByteLength(Payload) % 2 = 1) =>
           decPc = "rejected" /\ error = "RangeError"

\* C11: an empty payload (0 bytes) handed to the manual fallback yields a
\* buffer with frameCount = 0 and no error
C11_EmptyPayloadYieldsEmptyBuffer ==
    (Logged("manual") /\ ByteLength(Payload) = 0) =>
        /\ decPc = "resolved"
        /\ error = "none"
        /\ result.numberOfChannels = 1
        /\ result.length = 0

\* C14: the platform primitive is given a separate copy, so once the bytes
\* are decoded from base64Data they stay attached and unchanged whatever the
\* primitive does to its argument: the fallback reads the complete payload
C14_FallbackReadsOriginalBytes ==
    /\ decPc \in {"try", "await", "return", "catch", "resolved"} =>
           /\ ~heap.bytes.detached
           /\ heap.bytes.data = Payload
    /\ Logged("manual") =>
           /\ ~heap.bytes.detached
           /\ heap.bytes.data = Payload
           /\ error # "TypeError"
    /\ Logged("manual_ok") =>
           /\ result.length * 2 = ByteLength(Payload)
           /\ \A k \in 0..(result.length - 1) :
                  result.channels[0][k].v =
                      GetInt16(Payload, 2 * k)

C14_Witness ==
    /\ decPc = "resolved"
    /\ heap.copy.detached
    /\ Logged("manual_ok")
    /\ result.length = 2
    /\ heap.bytes.data = Payload

----------------------------------------------------------------------------
(* Properties of generateSpeech and of App, checked under AppSpec and       *)
(* AppFairSpec *)

\* answers of the API that carry no audio
NoAudioResponses == {"reject", "undefined", "empty"}

\* C13: one call of generateSpeech sends at most one request; without an API
\* key it throws before any request; it throws when the request fails or the
\* response has no audio payload; what it returns is a non-empty payload
C13_AtMostOneRequest ==
    /\ requests <= 1
    /\ (apiKey = "" /\ svcPc \notin {"idle", "call"})
          => (svcPc = "thrown" /\ requests = 0 /\ response = "none")
    /\ (svcPc \in {"returned", "thrown"} /\ response \in NoAudioResponses)
          => svcPc = "thrown"
    /\ svcPc = "returned" => (requests = 1 /\ response = "audio")

C13_Witness ==
    /\ svcPc = "returned"
    /\ requests = 1
    /\ response = "audio"

\* the sources that were started and not stopped
PlayingSources == {n \in DOMAIN sources : sources[n] = "playing"}

\* C15: whatever the interleaving of handleGenerate, handleHistoryPlay and
\* the play / stop button, at most one source is started and not stopped,
\* and it is the one sourceNodeRef references
C15_AtMostOnePlayingSource ==
    /\ Cardinality(PlayingSources) <= 1
    /\ \A n \in PlayingSources : sourceNodeRef = n

\* a second source plays after the first one was stopped by playBuffer
C15_Witness ==
    /\ Len(sources) >= 2
    /\ sources[1] = "stopped"
    /\ sources[Len(sources)] = "playing"
    /\ sourceNodeRef = Len(sources)

\* generation, decode and encode all succeeded
AllOk == [speech |-> "ok", decode |-> "ok", encode |-> "ok"]

\* C16: handleGenerate sets isLoading, and once its awaited calls settle
\* isLoading is false again, whether they succeeded, threw, or the audio
\* context was absent; an item is prepended to the history only when
\* generation, decode and encode all succeeded
C16_LoadingResetAndHistoryOnSuccess ==
    /\ isLoading ~> ~isLoading
    /\ [][/\ (genPc = "idle" /\ genPc' # "idle") => isLoading'
          /\ Len(history') > Len(history)
                => /\ outcome' = AllOk
                   /\ Len(history') = Len(history) + 1
                   /\ Tail(history') = history
                   /\ genPc = "decode"
          /\ (genPc # "idle" /\ genPc' = "idle" /\ outcome' # AllOk)
                => history' = history]_vars

C16_Witness ==
    /\ ~isLoading
    /\ genPc = "idle"
    /\ outcome = AllOk
    /\ history # <<>>

\* the playback that playBuffer started has reached the end of its buffer
ReachedEnd ==
    /\ isPlaying
    /\ sourceNodeRef # 0
    /\ currentAudio # NoAudio
    /\ AdjustedTime(speed) >= currentAudio.duration

\* C17: when the playback that playBuffer started reaches the duration of
\* the buffer, the monitor eventually stops it (isPlaying false, currentTime
\* 0), unless the user stops, restarts or slows that playback first; this
\* for every value of the audio clock at which the playback started, 0
\* included
C17_MonitorStopsAtEnd ==
    [](ReachedEnd => <>((~isPlaying /\ currentTime = 0) \/ ~ReachedEnd))
====
